---- MODULE Spec2Model ----
(***************************************************************************)
(* Model of migrate_to_global.py: the migration of a project-local .agent  *)
(* workspace into the global Antigravity directory.                        *)
(*                                                                         *)
(* The filesystem is modelled as three trees, one per command-line path    *)
(* (--src, --dest, --backup-dir).  The three paths are taken to be         *)
(* distinct and not nested in one another, as the defaults are.  A node    *)
(* is absent, a regular file (with its content) or a directory (a map      *)
(* from entry names to nodes).  File metadata (copy2) is not modelled.     *)
(* Following the workspace layout the tool is written for, the workspace   *)
(* roots and the mapped subdirectories are directories or absent and       *)
(* mcp_config.json is a regular file or absent; what the subdirectories    *)
(* hold is arbitrary.                                                      *)
(***************************************************************************)
EXTENDS Integers, Sequences, FiniteSets, TLC

VARIABLES
    src,         \* tree at args.src
    dest,        \* tree at args.dest
    backup_dir,  \* tree at args.backup_dir
    dry_run,     \* args.dry_run
    pc,          \* position of the running program
    out,         \* lines printed so far
    dest0,       \* dest when the program started
    backup0,     \* backup_dir when the program started
    prev,        \* dest before the last call (function specifications)
    dest1,       \* dest after the first call (function specifications)
    calls,       \* number of calls made (function specifications)
    err          \* whether the last call raised

vars == <<src, dest, backup_dir, dry_run, pc, out, dest0, backup0, prev, dest1, calls, err>>

(***************************************************************************)
(* Bounds                                                                  *)
(***************************************************************************)
MaxContent == 1     \* source files hold contents 1..MaxContent, old destination files hold 0
MaxValue == 2       \* server configurations are the values 1..MaxValue
MaxTime == 2        \* datetime.now() yields a second in 1..MaxTime
MaxCalls == 2       \* calls of merge_mcp_configs in a row
MaxSubdirs == 2     \* mapped subdirectories present in the source of a run of main

ItemNames == {"x", "y"}
ServerNames == {"a", "b"}

(***************************************************************************)
(* Filesystem nodes                                                        *)
(***************************************************************************)
EmptyMap == [n \in {} |-> 0]

Absent == [kind |-> "absent"]
File(c) == [kind |-> "file", content |-> c]
Dir(e) == [kind |-> "dir", entries |-> e]

\* A file's content: plain bytes, or a text that json.load reads as `json`.
Data(n) == [fmt |-> "data", bytes |-> n, json |-> EmptyMap]
JsonText(f, v) == [fmt |-> f, bytes |-> 0, json |-> v]
Malformed == [fmt |-> "malformed", bytes |-> 0, json |-> EmptyMap]

Exists(n) == n.kind # "absent"
IsDir(n) == n.kind = "dir"

\* os.path.join(d, name) followed by a look at what is there
Get(d, name) ==
    IF d.kind = "dir" /\ name \in DOMAIN d.entries THEN d.entries[name] ELSE Absent

\* directory d with entry `name` set to node n
Put(d, name, n) ==
    Dir([k \in DOMAIN d.entries \cup {name} |-> IF k = name THEN n ELSE d.entries[k]])

\* directory d without entry `name`
Remove(d, name) ==
    Dir([k \in DOMAIN d.entries \ {name} |-> d.entries[k]])

\* A printed line: log(msg, dry_run) prefixes "[DRY RUN] " when dry_run is set.
log(msg, arg, dry) == [prefix |-> dry, msg |-> msg, arg |-> arg]

SeqOfSet(S) == {s \in [1..Cardinality(S) -> S] : \A i, j \in 1..Cardinality(S) : s[i] = s[j] => i = j}

\* os.listdir(d): the entry names of d, in the order the filesystem gives
listdir(d, ord) == SelectSeq(ord, LAMBDA n : n \in DOMAIN d.entries)

(***************************************************************************)
(* backup_global                                                           *)
(***************************************************************************)
\* a copy that takes the files of s and leaves its subdirectories out
CopyTreeShallow(s) ==
    Dir([k \in {n \in DOMAIN s.entries : s.entries[n].kind = "file"} |-> s.entries[k]])

\* shutil.copytree(s, d) makes d a recursive copy of s
copytree(s) == s

\* backup_global without the early return for a destination that does not exist
BackupGlobalUnguarded(d, b, dry, ts) ==
    LET o == <<log("backup", "", dry)>> IN
    IF dry
    THEN [backup |-> b, err |-> FALSE, out |-> o]
    ELSE IF b.kind = "file"
         THEN [backup |-> b, err |-> TRUE, out |-> o]
         ELSE LET root == IF Exists(b) THEN b ELSE Dir(EmptyMap) IN
              IF IsDir(d) /\ ~Exists(Get(root, ts))
              THEN [backup |-> Put(root, ts, copytree(d)), err |-> FALSE, out |-> o]
              ELSE [backup |-> root, err |-> TRUE, out |-> o]

\* backup_global(dest_path, backup_dir, dry_run), datetime.now() giving second ts.
\* The snapshot is the entry named by ts under the backup root.
backup_global(d, b, dry, ts) ==
    IF ~Exists(d)
    THEN [backup |-> b, err |-> FALSE, out |-> <<log("backup_skipped", "", dry)>>]
    ELSE LET o == <<log("backup", "", dry)>> IN
         IF dry
         THEN [backup |-> b, err |-> FALSE, out |-> o]
         ELSE IF b.kind = "file"
              THEN \* os.makedirs raises FileExistsError
                   [backup |-> b, err |-> TRUE, out |-> o]
              ELSE LET root == IF Exists(b) THEN b ELSE Dir(EmptyMap) IN
                   IF IsDir(d) /\ ~Exists(Get(root, ts))
                   THEN [backup |-> Put(root, ts, copytree(d)), err |-> FALSE, out |-> o]
                   ELSE \* copytree raises: the source is no directory, or the target exists
                        [backup |-> root, err |-> TRUE, out |-> o]

(***************************************************************************)
(* migrate_directories                                                     *)
(***************************************************************************)
\* the mapping of source subdirectory to destination subdirectory, in dict order
mapping ==
    << <<"agents", "agents">>, <<"skills", "skills">>, <<"workflows", "global_workflows">>,
       <<"rules", "rules">>, <<"scripts", "scripts">> >>

SrcSubs == {mapping[i][1] : i \in DOMAIN mapping}
DestSubs == {mapping[i][2] : i \in DOMAIN mapping}

\* One pass of the loop over os.listdir(src_path): entry `item`, node s in the
\* source subdirectory, copied into destination subdirectory dsub.
MigrateItem(dsub, item, s) ==
    LET d == Get(dsub, item) IN
    IF IsDir(s)
    THEN IF Exists(d) /\ ~IsDir(d)
         THEN \* shutil.rmtree on a regular file raises NotADirectoryError
              [dir |-> dsub, err |-> TRUE]
         ELSE \* rmtree(d) when it exists, then copytree(s, d)
              [dir |-> Put(Remove(dsub, item), item, copytree(s)), err |-> FALSE]
    ELSE IF IsDir(d)
         THEN \* shutil.copy2 into an existing directory writes d/<basename of s>
              IF IsDir(Get(d, item))
              THEN [dir |-> dsub, err |-> TRUE]
              ELSE [dir |-> Put(dsub, item, Put(d, item, File(s.content))), err |-> FALSE]
         ELSE [dir |-> Put(dsub, item, File(s.content)), err |-> FALSE]

\* The loop over the entries of the source subdirectory ssub, from position i of
\* the listing `items`; it stops at the first entry that raises.
RECURSIVE MigrateItems(_, _, _, _)
MigrateItems(dsub, ssub, items, i) ==
    IF i > Len(items)
    THEN [dir |-> dsub, err |-> FALSE]
    ELSE LET r == MigrateItem(dsub, items[i], ssub.entries[items[i]]) IN
         IF r.err THEN r ELSE MigrateItems(r.dir, ssub, items, i + 1)

\* os.makedirs(path, exist_ok=True) of entry `name` under node d (parents are made too)
makedirs(d, name) ==
    IF d.kind = "file" \/ Get(d, name).kind = "file"
    THEN [dir |-> d, err |-> TRUE]
    ELSE LET root == IF Exists(d) THEN d ELSE Dir(EmptyMap) IN
         [dir |-> IF Exists(Get(root, name)) THEN root ELSE Put(root, name, Dir(EmptyMap)),
          err |-> FALSE]

\* a variant of the loop body that empties the destination subdirectory first
MigratePairMirror(s, d, pair, dry, ord) ==
    LET src_path == Get(s, pair[1]) IN
    IF ~Exists(src_path)
    THEN [dest |-> d, err |-> FALSE, out |-> <<>>]
    ELSE LET o == <<log("migrating", pair[1], dry)>> IN
         IF dry
         THEN [dest |-> d, err |-> FALSE, out |-> o]
         ELSE LET m == makedirs(d, pair[2]) IN
              IF m.err \/ ~IsDir(src_path)
              THEN [dest |-> m.dir, err |-> TRUE, out |-> o]
              ELSE LET r == MigrateItems(Dir(EmptyMap), src_path,
                                         listdir(src_path, ord), 1) IN
                   [dest |-> Put(m.dir, pair[2], r.dir), err |-> r.err, out |-> o]

\* The body of the loop over mapping.items() for one pair.
MigratePair(s, d, pair, dry, ord) ==
    LET src_path == Get(s, pair[1]) IN
    IF ~Exists(src_path)
    THEN [dest |-> d, err |-> FALSE, out |-> <<>>]
    ELSE LET o == <<log("migrating", pair[1], dry)>> IN
         IF dry
         THEN [dest |-> d, err |-> FALSE, out |-> o]
         ELSE LET m == makedirs(d, pair[2]) IN
              IF m.err \/ ~IsDir(src_path)
              THEN [dest |-> m.dir, err |-> TRUE, out |-> o]
              ELSE LET r == MigrateItems(Get(m.dir, pair[2]), src_path,
                                         listdir(src_path, ord), 1) IN
                   [dest |-> Put(m.dir, pair[2], r.dir), err |-> r.err, out |-> o]

RECURSIVE MigrateFrom(_, _, _, _, _)
MigrateFrom(s, d, dry, ord, i) ==
    IF i > Len(mapping)
    THEN [dest |-> d, err |-> FALSE, out |-> <<>>]
    ELSE LET r == MigratePair(s, d, mapping[i], dry, ord) IN
         IF r.err
         THEN r
         ELSE LET rest == MigrateFrom(s, r.dest, dry, ord, i + 1) IN
              [dest |-> rest.dest, err |-> rest.err, out |-> r.out \o rest.out]

\* migrate_directories(src_dir, dest_dir, dry_run)
migrate_directories(s, d, dry, ord) == MigrateFrom(s, d, dry, ord, 1)

(***************************************************************************)
(* merge_mcp_configs                                                       *)
(***************************************************************************)
ConfigName == "mcp_config.json"
ServersKey == "mcpServers"

\* json.load(f): fails on malformed text, else the object the text denotes
json_load(text) ==
    IF text.fmt \in {"compact", "indent2"}
    THEN [ok |-> TRUE, obj |-> text.json]
    ELSE [ok |-> FALSE, obj |-> EmptyMap]

\* json.dump(obj, f, indent=2)
json_dump(obj) == JsonText("indent2", obj)

\* obj.get("mcpServers", {})
GetServers(obj) == IF ServersKey \in DOMAIN obj THEN obj[ServersKey] ELSE EmptyMap

\* a merge in which the destination's entry wins a conflict
MergeServersKeepDest(src_servers, dest_servers) ==
    [k \in DOMAIN dest_servers \cup DOMAIN src_servers |->
        IF k \in DOMAIN dest_servers THEN dest_servers[k] ELSE src_servers[k]]

\* a merge in which a conflicting entry is removed instead of overwritten
MergeServersDropConflicts(src_servers, dest_servers) ==
    [k \in (DOMAIN dest_servers \cup DOMAIN src_servers)
              \ (DOMAIN dest_servers \cap DOMAIN src_servers) |->
        IF k \in DOMAIN src_servers THEN src_servers[k] ELSE dest_servers[k]]

\* the loop over src_servers.items(): dest_servers[server_name] = server_config
MergeServers(src_servers, dest_servers) ==
    [k \in DOMAIN dest_servers \cup DOMAIN src_servers |->
        IF k \in DOMAIN src_servers THEN src_servers[k] ELSE dest_servers[k]]

\* dest_config["mcpServers"] = dest_servers
SetServers(obj, servers) ==
    [k \in DOMAIN obj \cup {ServersKey} |-> IF k = ServersKey THEN servers ELSE obj[k]]

\* the "Conflict: Overwriting ..." lines, one per server named on both sides
ConflictLines(src_servers, dest_servers) ==
    LET both == DOMAIN src_servers \cap DOMAIN dest_servers
        names == CHOOSE q \in SeqOfSet(both) : TRUE
    IN [i \in 1..Len(names) |-> log("conflict", names[i], FALSE)]

\* a variant that opens the destination for writing before it parses the files
MergeFilesWriteFirst(sc, dc, d) ==
    IF sc.kind # "file" \/ dc.kind # "file"
    THEN [dest |-> d, err |-> TRUE, out |-> <<>>]
    ELSE LET src_config == json_load(sc.content)
             dest_config == json_load(dc.content)
         IN IF ~src_config.ok \/ ~dest_config.ok
            THEN [dest |-> Put(d, ConfigName, File(Malformed)), err |-> TRUE, out |-> <<>>]
            ELSE LET src_servers == GetServers(src_config.obj)
                     dest_servers == GetServers(dest_config.obj)
                     merged == SetServers(dest_config.obj,
                                          MergeServers(src_servers, dest_servers))
                 IN [dest |-> Put(d, ConfigName, File(json_dump(merged))),
                     err |-> FALSE,
                     out |-> ConflictLines(src_servers, dest_servers)]

\* The merge proper: both files are read and parsed, then the destination is rewritten.
MergeFiles(sc, dc, d) ==
    IF sc.kind # "file" \/ dc.kind # "file"
    THEN [dest |-> d, err |-> TRUE, out |-> <<>>]
    ELSE LET src_config == json_load(sc.content)
             dest_config == json_load(dc.content)
         IN IF ~src_config.ok \/ ~dest_config.ok
            THEN [dest |-> d, err |-> TRUE, out |-> <<>>]
            ELSE LET src_servers == GetServers(src_config.obj)
                     dest_servers == GetServers(dest_config.obj)
                     merged == SetServers(dest_config.obj,
                                          MergeServers(src_servers, dest_servers))
                 IN [dest |-> Put(d, ConfigName, File(json_dump(merged))),
                     err |-> FALSE,
                     out |-> ConflictLines(src_servers, dest_servers)]

\* merge_mcp_configs(src_dir, dest_dir, dry_run)
merge_mcp_configs(s, d, dry) ==
    LET sc == Get(s, ConfigName)
        dc == Get(d, ConfigName)
    IN IF ~Exists(sc)
       THEN [dest |-> d, err |-> FALSE, out |-> <<log("no_source_config", "", FALSE)>>]
       ELSE IF ~Exists(dc)
            THEN LET o == <<log("copying_config", "", dry)>> IN
                 IF dry
                 THEN [dest |-> d, err |-> FALSE, out |-> o]
                 ELSE IF sc.kind # "file" \/ ~IsDir(d)
                      THEN [dest |-> d, err |-> TRUE, out |-> o]
                      ELSE [dest |-> Put(d, ConfigName, File(sc.content)),
                            err |-> FALSE, out |-> o]
            ELSE LET o == <<log("merging_config", "", dry)>> IN
                 IF dry
                 THEN [dest |-> d, err |-> FALSE, out |-> o]
                 ELSE LET r == MergeFiles(sc, dc, d) IN
                      [dest |-> r.dest, err |-> r.err, out |-> o \o r.out]

(***************************************************************************)
(* main                                                                    *)
(***************************************************************************)
\* the orders in which os.listdir may return the entries of a directory
Orders == SeqOfSet(ItemNames)
Timestamps == 1..MaxTime

\* a variant of main that merges the config before it migrates the directories
MainStepsMergeFirst == <<"backup", "ensure", "merge", "migrate", "report", "done">>

\* the steps of main, in program order
MainSteps == <<"backup", "ensure", "migrate", "merge", "report", "done">>

\* the step that follows step p when p does not raise
After(p) == MainSteps[(CHOOSE i \in DOMAIN MainSteps : MainSteps[i] = p) + 1]

\* main, line 104: backup_global(args.dest, args.backup_dir, args.dry_run)
Backup ==
    /\ pc = "backup"
    /\ \E ts \in Timestamps :
         LET r == backup_global(dest, backup_dir, dry_run, ts) IN
         /\ backup_dir' = r.backup
         /\ out' = out \o <<log("starting", "", FALSE)>> \o r.out
         /\ err' = r.err
         /\ pc' = IF r.err THEN "failed" ELSE After("backup")
    /\ UNCHANGED <<src, dest, dry_run, dest0, backup0, prev, dest1, calls>>

\* a variant that leaves the creation of the destination to the migration
EnsureDestSkipped ==
    /\ pc = "ensure"
    /\ pc' = After("ensure")
    /\ UNCHANGED <<src, dest, backup_dir, dry_run, out, dest0, backup0, prev, dest1, calls, err>>

\* a variant that creates the destination in a dry run too
EnsureDestAlways ==
    /\ pc = "ensure"
    /\ IF IsDir(dest)
       THEN UNCHANGED <<dest, err>> /\ pc' = After("ensure")
       ELSE IF Exists(dest)
            THEN UNCHANGED dest /\ err' = TRUE /\ pc' = "failed"
            ELSE dest' = Dir(EmptyMap) /\ UNCHANGED err /\ pc' = After("ensure")
    /\ UNCHANGED <<src, backup_dir, dry_run, out, dest0, backup0, prev, dest1, calls>>

\* main, lines 107-108: os.makedirs(args.dest, exist_ok=True) unless dry_run
EnsureDest ==
    /\ pc = "ensure"
    /\ IF dry_run \/ IsDir(dest)
       THEN UNCHANGED <<dest, err>> /\ pc' = After("ensure")
       ELSE IF Exists(dest)
            THEN UNCHANGED dest /\ err' = TRUE /\ pc' = "failed"
            ELSE dest' = Dir(EmptyMap) /\ UNCHANGED err /\ pc' = After("ensure")
    /\ UNCHANGED <<src, backup_dir, dry_run, out, dest0, backup0, prev, dest1, calls>>

\* main, line 111: migrate_directories(args.src, args.dest, args.dry_run)
Migrate ==
    /\ pc = "migrate"
    /\ \E ord \in Orders :
         LET r == migrate_directories(src, dest, dry_run, ord) IN
         /\ dest' = r.dest
         /\ out' = out \o r.out
         /\ err' = r.err
         /\ pc' = IF r.err THEN "failed" ELSE After("migrate")
    /\ UNCHANGED <<src, backup_dir, dry_run, dest0, backup0, prev, dest1, calls>>

\* main, line 114: merge_mcp_configs(args.src, args.dest, args.dry_run)
Merge ==
    /\ pc = "merge"
    /\ LET r == merge_mcp_configs(src, dest, dry_run) IN
         /\ dest' = r.dest
         /\ out' = out \o r.out
         /\ err' = r.err
         /\ pc' = IF r.err THEN "failed" ELSE After("merge")
    /\ UNCHANGED <<src, backup_dir, dry_run, dest0, backup0, prev, dest1, calls>>

\* main, lines 116-124: the note on rules, then "Migration completed successfully!"
Report ==
    /\ pc = "report"
    /\ out' = out \o <<log("rules_note", "", FALSE), log("completed", "", FALSE)>>
    /\ pc' = After("report")
    /\ UNCHANGED <<src, dest, backup_dir, dry_run, dest0, backup0, prev, dest1, calls, err>>

Next == Backup \/ EnsureDest \/ Migrate \/ Merge \/ Report

(***************************************************************************)
(* The states a run of main starts from                                    *)
(***************************************************************************)
PlainFile(c) == File(Data(c))
OneEntry(name, n) == Dir([k \in {name} |-> n])

\* a source subdirectory: one file, or one directory holding one file
SrcSubdirs == {OneEntry("x", PlainFile(1)), OneEntry("x", OneEntry("x", PlainFile(1)))}

\* a destination subdirectory left by an earlier run: one old file
OldDestSubdir == OneEntry("x", PlainFile(0))

SrcConfigs ==
    {Absent, File(Malformed),
     File(JsonText("compact", [k \in {ServersKey} |-> [n \in {"a"} |-> 1]]))}
DestConfigs ==
    {Absent,
     File(JsonText("compact", [k \in {ServersKey, "other"} |->
                                 IF k = ServersKey THEN [n \in {"b"} |-> 1] ELSE 1]))}

\* a workspace directory: the subdirectories `subs` and the config file `cfg`
Workspace(subs, cfg) ==
    Dir([k \in DOMAIN subs \cup (IF Exists(cfg) THEN {ConfigName} ELSE {}) |->
           IF k = ConfigName THEN cfg ELSE subs[k]])

SrcWorkspaces ==
    {Absent} \cup
    {Workspace(subs, cfg) :
        subs \in UNION {[P -> SrcSubdirs] : P \in {Q \in SUBSET SrcSubs : Cardinality(Q) <= MaxSubdirs}},
        cfg \in SrcConfigs}

DestWorkspaces ==
    {Absent} \cup
    {Workspace(subs, cfg) :
        subs \in UNION {[P -> {OldDestSubdir}] : P \in {{}} \cup {{n} : n \in DestSubs}},
        cfg \in DestConfigs}

\* the backup root: absent, or holding the snapshot an earlier run took at second 1
BackupRoots == {Absent, Dir([t \in {1} |-> Dir(EmptyMap)])}

Init ==
    /\ src \in SrcWorkspaces
    /\ dest \in DestWorkspaces
    /\ backup_dir \in BackupRoots
    /\ dry_run \in BOOLEAN
    /\ pc = MainSteps[1]
    /\ out = <<>>
    /\ dest0 = dest
    /\ backup0 = backup_dir
    /\ prev = dest
    /\ dest1 = dest
    /\ calls = 0
    /\ err = FALSE

Spec == Init /\ [][Next]_vars

(***************************************************************************)
(* migrate_directories called on its own                                   *)
(***************************************************************************)
CallMigrate ==
    /\ pc = "call_migrate"
    /\ \E ord \in Orders :
         LET r == migrate_directories(src, dest, dry_run, ord) IN
         /\ dest' = r.dest
         /\ out' = out \o r.out
         /\ err' = r.err
    /\ prev' = dest
    /\ dest1' = dest'
    /\ calls' = calls + 1
    /\ pc' = "returned"
    /\ UNCHANGED <<src, backup_dir, dry_run, dest0, backup0>>

NextMigrate == CallMigrate

\* an entry of a source subdirectory: a file, or a directory holding at most one file
SrcItems ==
    {PlainFile(c) : c \in 1..MaxContent}
        \cup {Dir(EmptyMap)}
        \cup {OneEntry("x", PlainFile(c)) : c \in 1..MaxContent}

\* an entry of a destination subdirectory, its files older than the source's
DestItems ==
    {PlainFile(0), Dir(EmptyMap), OneEntry("x", PlainFile(0)), OneEntry("x", Dir(EmptyMap))}

Listings(items) == UNION {[D -> items] : D \in SUBSET ItemNames}

\* workspaces with at most one of the names `subs` present, holding `items`
OneSubdir(subs, items) ==
    {Dir(EmptyMap)} \cup {OneEntry(n, Dir(l)) : n \in subs, l \in Listings(items)}

InitMigrate ==
    /\ src \in {Absent} \cup OneSubdir(SrcSubs, SrcItems)
    /\ dest \in {Absent} \cup OneSubdir(DestSubs \cup SrcSubs, DestItems)
    /\ backup_dir = Absent
    /\ dry_run = FALSE
    /\ pc = "call_migrate"
    /\ out = <<>>
    /\ dest0 = dest
    /\ backup0 = backup_dir
    /\ prev = dest
    /\ dest1 = dest
    /\ calls = 0
    /\ err = FALSE

SpecMigrate == InitMigrate /\ [][NextMigrate]_vars

(***************************************************************************)
(* merge_mcp_configs called on its own, MaxCalls times in a row            *)
(***************************************************************************)
CallMerge ==
    /\ pc = "call_merge"
    /\ calls < MaxCalls
    /\ LET r == merge_mcp_configs(src, dest, dry_run) IN
         /\ dest' = r.dest
         /\ out' = out \o r.out
         /\ err' = r.err
    /\ prev' = dest
    /\ dest1' = IF calls = 0 THEN dest' ELSE dest1
    /\ calls' = calls + 1
    /\ UNCHANGED <<src, backup_dir, dry_run, pc, dest0, backup0>>

NextMerge == CallMerge

ServerMaps == UNION {[D -> 1..MaxValue] : D \in SUBSET ServerNames}

\* JSON objects with an optional "mcpServers" mapping and an optional key "other"
Objects ==
    {[k \in (IF hasServers THEN {ServersKey} ELSE {}) \cup (IF other > 0 THEN {"other"} ELSE {}) |->
        IF k = ServersKey THEN servers ELSE other] :
     hasServers \in BOOLEAN, servers \in ServerMaps, other \in 0..MaxValue}

ConfigFiles ==
    {File(Malformed)} \cup {File(JsonText(f, o)) : f \in {"compact", "indent2"}, o \in Objects}

InitMerge ==
    /\ src \in {Workspace(EmptyMap, cfg) : cfg \in {Absent} \cup ConfigFiles}
    /\ dest \in {Absent} \cup {Workspace(EmptyMap, cfg) : cfg \in {Absent} \cup ConfigFiles}
    /\ backup_dir = Absent
    /\ dry_run = FALSE
    /\ pc = "call_merge"
    /\ out = <<>>
    /\ dest0 = dest
    /\ backup0 = backup_dir
    /\ prev = dest
    /\ dest1 = dest
    /\ calls = 0
    /\ err = FALSE

SpecMerge == InitMerge /\ [][NextMerge]_vars

(***************************************************************************)
(* Properties                                                              *)
(***************************************************************************)
Printed(msg) == \E i \in DOMAIN out : out[i].msg = msg

\* the snapshots under the backup root that the run has added
NewSnapshots == {ts \in Timestamps : Exists(Get(backup_dir, ts)) /\ ~Exists(Get(backup0, ts))}

\* the mapped subdirectories present in the source
PresentPairs == {i \in DOMAIN mapping : Exists(Get(src, mapping[i][1]))}

\* every file under s is found at the same relative path under d, with the same content
RECURSIVE FilesCopied(_, _)
FilesCopied(s, d) ==
    IF s.kind = "file"
    THEN d.kind = "file" /\ d.content = s.content
    ELSE \A n \in DOMAIN s.entries : FilesCopied(s.entries[n], Get(d, n))

\* C1 as stated: every completed run that found the destination in place has
\* left a new snapshot under the backup root equal to the destination as it
\* was before the run.
C1_BackupOnEveryRun ==
    (pc = "done" /\ Exists(dest0)) => \E ts \in NewSnapshots : Get(backup_dir, ts) = dest0

\* C1 amended: every run without --dry-run that found the destination in place
\* has, from the end of the backup step on, a new snapshot under the backup
\* root equal to the destination as it was before the run; the migration and
\* the merge that follow do not alter it.
C1_BackupOnRealRun ==
    (~dry_run /\ Exists(dest0) /\ pc \in {"ensure", "migrate", "merge", "report", "done"})
        => \E ts \in NewSnapshots : Get(backup_dir, ts) = dest0

\* a completed run that has changed a destination it had backed up
C1_Witness ==
    /\ pc = "done" /\ ~dry_run /\ Exists(dest0) /\ dest # dest0
    /\ \E n \in DestSubs : Exists(Get(dest0, n)) /\ Get(dest, n) # Get(dest0, n)

\* C2 as stated: after a completed run the destination directory exists iff it
\* existed before or a mapped subdirectory was migrated into it.
C2_ExistsIffNeeded ==
    pc = "done" => (IsDir(dest) <=> (Exists(dest0) \/ (~dry_run /\ PresentPairs # {})))

\* C2 amended: after a completed run without --dry-run the destination
\* directory exists, whether or not anything was migrated into it; after a
\* completed dry run it exists iff it existed before.
C2_ExistsAfterRun ==
    pc = "done" => IF dry_run THEN IsDir(dest) <=> Exists(dest0) ELSE IsDir(dest)

\* a completed run that has created the destination with nothing to migrate
C2_Witness ==
    pc = "done" /\ ~dry_run /\ ~Exists(dest0) /\ PresentPairs = {} /\ IsDir(dest)

\* C3: after migrate_directories has returned, for every mapped pair whose
\* source subdirectory exists, every file under the source subdirectory is at
\* the same relative path under the destination subdirectory with the same
\* content, and an entry that was a directory on both sides equals the
\* source's directory.
C3_CopyFidelity ==
    (pc = "returned" /\ ~err) =>
        \A i \in PresentPairs :
            LET s == Get(src, mapping[i][1])
                d == Get(dest, mapping[i][2])
                old == Get(prev, mapping[i][2])
            IN /\ FilesCopied(s, d)
               /\ \A n \in DOMAIN s.entries :
                      (IsDir(s.entries[n]) /\ IsDir(Get(old, n))) => Get(d, n) = s.entries[n]

\* the old and new "mcpServers" mappings and objects of a call of merge_mcp_configs
SrcObject == Get(src, ConfigName).content.json
OldObject == Get(prev, ConfigName).content.json
NewObject == Get(dest, ConfigName).content.json
ServersIn(obj) == IF ServersKey \in DOMAIN obj THEN obj[ServersKey] ELSE EmptyMap
Parses(n) == n.kind = "file" /\ n.content.fmt \in {"compact", "indent2"}

\* C4: when both config files exist and parse, the call succeeds and leaves a
\* destination config that parses, whose mcpServers holds every source entry
\* with the source's value and every other old destination entry with its old
\* value and nothing else, and whose other top-level keys are the old ones
\* with their old values.
C4_MergeResult ==
    (calls >= 1 /\ ~dry_run /\ Parses(Get(src, ConfigName)) /\ Parses(Get(prev, ConfigName))) =>
        /\ ~err
        /\ Parses(Get(dest, ConfigName))
        /\ ServersKey \in DOMAIN NewObject
        /\ DOMAIN NewObject[ServersKey] = DOMAIN ServersIn(SrcObject) \cup DOMAIN ServersIn(OldObject)
        /\ \A k \in DOMAIN ServersIn(SrcObject) : NewObject[ServersKey][k] = ServersIn(SrcObject)[k]
        /\ \A k \in DOMAIN ServersIn(OldObject) \ DOMAIN ServersIn(SrcObject) :
               NewObject[ServersKey][k] = ServersIn(OldObject)[k]
        /\ DOMAIN NewObject \ {ServersKey} = DOMAIN OldObject \ {ServersKey}
        /\ \A k \in DOMAIN OldObject \ {ServersKey} : NewObject[k] = OldObject[k]

\* the scenario: source {mcpServers: {a: 1}}, destination {mcpServers: {b: 2},
\* other: 1} merged into {mcpServers: {b: 2, a: 1}, other: 1}
C4_Witness ==
    /\ calls = 1 /\ ~err
    /\ Parses(Get(src, ConfigName)) /\ Parses(Get(prev, ConfigName))
    /\ SrcObject = [k \in {ServersKey} |-> [n \in {"a"} |-> 1]]
    /\ OldObject = [k \in {ServersKey, "other"} |-> IF k = ServersKey THEN [n \in {"b"} |-> 2] ELSE 1]
    /\ NewObject = [k \in {ServersKey, "other"} |->
                       IF k = ServersKey THEN [n \in {"a", "b"} |-> IF n = "a" THEN 1 ELSE 2] ELSE 1]

\* C5: in a dry run nothing on the filesystem changes and no step raises.
C5_DryRunChangesNothing ==
    dry_run => (dest = dest0 /\ backup_dir = backup0 /\ pc # "failed" /\ ~err)

\* a completed dry run over a destination, a source subdirectory and a source
\* config that a real run would have backed up, migrated and copied or merged
C5_Witness ==
    /\ dry_run /\ pc = "done" /\ Exists(dest0)
    /\ PresentPairs # {} /\ Exists(Get(src, ConfigName))
    /\ Printed("completed")

\* what a reader of the destination config sees as its server mapping
ServersView(d) ==
    LET c == Get(d, ConfigName) IN
    [present |-> Exists(c), parses |-> Parses(c),
     servers |-> IF Parses(c) THEN ServersIn(c.content.json) ELSE EmptyMap]

\* C6: every further call of merge_mcp_configs with the source unchanged
\* leaves the destination's mcpServers mapping as the first call left it.
C6_MergeIdempotent ==
    (calls >= 2 /\ ~dry_run) => ServersView(dest) = ServersView(dest1)

\* a second call that merged into the file the first call had copied
C6_Witness ==
    /\ calls = 2 /\ ~err /\ IsDir(dest0) /\ ~Exists(Get(dest0, ConfigName))
    /\ dest1 # dest0 /\ dest # dest1
    /\ DOMAIN ServersView(dest).servers # {}

\* C7: when both config files exist and one of them is malformed, the call
\* raises and the destination is as it was before the call.
C7_MalformedLeavesDest ==
    (calls >= 1 /\ ~dry_run
        /\ Get(src, ConfigName).kind = "file" /\ Get(prev, ConfigName).kind = "file"
        /\ (~Parses(Get(src, ConfigName)) \/ ~Parses(Get(prev, ConfigName))))
    => (err /\ dest = prev)

\* a call that raised on a malformed source over a well-formed destination config
C7_Witness ==
    /\ calls = 1 /\ err
    /\ Get(src, ConfigName).kind = "file" /\ ~Parses(Get(src, ConfigName))
    /\ Parses(Get(prev, ConfigName)) /\ DOMAIN ServersView(prev).servers # {}

C9_ExtrasUntouched ==
    pc = "returned" =>
        \A i \in DOMAIN mapping :
            LET s == Get(src, mapping[i][1])
                d == Get(dest, mapping[i][2])
                old == Get(prev, mapping[i][2])
            IN IF ~Exists(s)
               THEN d = old
               ELSE IsDir(old) =>
                       \A n \in DOMAIN old.entries \ DOMAIN s.entries : Get(d, n) = old.entries[n]

\* a migration that replaced one entry of a destination subdirectory and had a
\* second entry there that the source does not name
C9_Witness ==
    /\ pc = "returned" /\ ~err
    /\ \E i \in PresentPairs :
          LET s == Get(src, mapping[i][1])
              d == Get(dest, mapping[i][2])
              old == Get(prev, mapping[i][2])
          IN /\ IsDir(old)
             /\ \E n \in DOMAIN old.entries : n \in DOMAIN s.entries /\ Get(d, n) # old.entries[n]
             /\ \E n \in DOMAIN old.entries : n \notin DOMAIN s.entries

\* the steps main may take from one position to the next
MainOrder ==
    {<<"backup", "ensure">>, <<"ensure", "migrate">>, <<"migrate", "merge">>,
     <<"merge", "report">>, <<"report", "done">>}
        \cup {<<p, "failed">> : p \in {"backup", "ensure", "migrate", "merge"}}

C10_Step ==
    /\ <<pc, pc'>> \in MainOrder
    \* the backup root changes in the backup step only, before the destination does
    /\ backup_dir' # backup_dir => (pc = "backup" /\ dest = dest0 /\ dest' = dest)
    \* when the destination changes, the snapshot of what it was is complete
    /\ dest' # dest =>
          /\ backup_dir' = backup_dir
          /\ Exists(dest0) => \E ts \in NewSnapshots : Get(backup_dir, ts) = dest0
    \* while directories are migrated the config file is as the run found it
    /\ (\E n \in DestSubs : Get(dest', n) # Get(dest, n)) =>
          /\ pc = "migrate"
          /\ Get(dest, ConfigName) = Get(dest0, ConfigName)
          /\ Get(dest', ConfigName) = Get(dest0, ConfigName)
    \* the config file changes in the merge step only, which leaves the directories alone
    /\ Get(dest', ConfigName) # Get(dest, ConfigName) =>
          (pc = "merge" /\ \A n \in DestSubs : Get(dest', n) = Get(dest, n))
    \* a step that raises rolls nothing back
    /\ pc' = "failed" =>
          /\ pc # "backup" => backup_dir' = backup_dir
          /\ pc = "merge" => dest' = dest
          /\ \A ts \in NewSnapshots : Get(backup_dir', ts) = Get(backup_dir, ts)
          /\ ~(\E i \in DOMAIN out' : out'[i].msg = "completed")
    \* the success message is the last thing a run prints
    /\ (\E i \in DOMAIN out' : out'[i].msg = "completed") => pc' = "done"

\* C10: the steps of main happen in the order backup, ensure destination,
\* directory migration, config merge, report; the snapshot is complete before
\* the destination first changes, the directories are migrated before the
\* config file changes, and a step that raises ends the run with the backup
\* and the copies made so far in place and without the success message.
C10_StepOrder == [][C10_Step]_vars

\* a run that raised during the migration after it had taken its backup and
\* migrated an earlier subdirectory
C10_Witness ==
    /\ pc = "failed" /\ ~Printed("completed")
    /\ \E ts \in NewSnapshots : Get(backup_dir, ts) = dest0
    /\ \E i \in PresentPairs : FilesCopied(Get(src, mapping[i][1]), Get(dest, mapping[i][2]))
                                 /\ Get(dest, mapping[i][2]) # Get(dest0, mapping[i][2])

====
